---- MODULE Spec2Model ----
(***************************************************************************)
(* Model of eca-recommend (core.go): RecommendAlgorithms and               *)
(* detectFileCategory.                                                     *)
(*                                                                         *)
(* Scores are Go float64 values.  They are modelled as IEEE-754 binary64   *)
(* numbers (53-bit significand, round to nearest, ties to even) so that an *)
(* exact tie between two candidates in the model is an exact tie in the    *)
(* program.  A significand does not fit TLC's 32-bit integers, so it is    *)
(* kept as a little-endian sequence of 14-bit limbs.                       *)
(***************************************************************************)
EXTENDS Integers, Sequences, FiniteSets, TLC

(***************************************************************************)
(* Natural numbers of arbitrary size: little-endian limbs, no high zero    *)
(* limb, zero is the empty sequence.                                       *)
(***************************************************************************)
LimbBits == 14
Base == 2 ^ LimbBits
MantBits == 53

RECURSIVE BFromNat(_)
BFromNat(n) == IF n = 0 THEN <<>> ELSE <<n % Base>> \o BFromNat(n \div Base)

RECURSIVE BTrim(_)
BTrim(a) ==
    IF a = <<>> THEN a
    ELSE IF a[Len(a)] = 0 THEN BTrim(SubSeq(a, 1, Len(a) - 1)) ELSE a

Limb(a, i) == IF i <= Len(a) THEN a[i] ELSE 0

RECURSIVE BAddFrom(_, _, _, _)
BAddFrom(a, b, i, c) ==
    IF i > Len(a) /\ i > Len(b)
    THEN (IF c = 0 THEN <<>> ELSE <<c>>)
    ELSE LET s == Limb(a, i) + Limb(b, i) + c
         IN  <<s % Base>> \o BAddFrom(a, b, i + 1, s \div Base)

BAdd(a, b) == BAddFrom(a, b, 1, 0)

\* a - b for a >= b
RECURSIVE BSubFrom(_, _, _, _)
BSubFrom(a, b, i, c) ==
    IF i > Len(a) THEN <<>>
    ELSE LET s == a[i] - Limb(b, i) - c
         IN  IF s < 0 THEN <<s + Base>> \o BSubFrom(a, b, i + 1, 1)
                      ELSE <<s>> \o BSubFrom(a, b, i + 1, 0)

BSub(a, b) == BTrim(BSubFrom(a, b, 1, 0))

\* -1, 0, 1 as a < b, a = b, a > b
RECURSIVE BCmpFrom(_, _, _)
BCmpFrom(a, b, i) ==
    IF i = 0 THEN 0
    ELSE IF a[i] < b[i] THEN -1
    ELSE IF a[i] > b[i] THEN 1
    ELSE BCmpFrom(a, b, i - 1)

BCmp(a, b) ==
    IF Len(a) < Len(b) THEN -1
    ELSE IF Len(a) > Len(b) THEN 1
    ELSE BCmpFrom(a, b, Len(a))

\* a * d for a limb-sized d
RECURSIVE BMulSmallFrom(_, _, _, _)
BMulSmallFrom(a, d, i, c) ==
    IF i > Len(a) THEN (IF c = 0 THEN <<>> ELSE <<c>>)
    ELSE LET s == a[i] * d + c
         IN  <<s % Base>> \o BMulSmallFrom(a, d, i + 1, s \div Base)

BMulSmall(a, d) == IF d = 0 THEN <<>> ELSE BMulSmallFrom(a, d, 1, 0)

BShiftLimbs(a, k) == IF a = <<>> THEN a ELSE [i \in 1..k |-> 0] \o a

RECURSIVE BMulFrom(_, _, _)
BMulFrom(a, b, j) ==
    IF j > Len(b) THEN <<>>
    ELSE BAdd(BShiftLimbs(BMulSmall(a, b[j]), j - 1), BMulFrom(a, b, j + 1))

BMul(a, b) == BMulFrom(a, b, 1)

\* quotient and remainder of a by a limb-sized d > 0, from the high limb down
RECURSIVE BDivSmallFrom(_, _, _, _, _)
BDivSmallFrom(a, d, i, r, q) ==
    IF i = 0 THEN [q |-> BTrim(q), r |-> r]
    ELSE BDivSmallFrom(a, d, i - 1, (r * Base + a[i]) % d,
                       <<(r * Base + a[i]) \div d>> \o q)

BDivSmall(a, d) == BDivSmallFrom(a, d, Len(a), 0, <<>>)

RECURSIVE NatBitLen(_)
NatBitLen(n) == IF n = 0 THEN 0 ELSE 1 + NatBitLen(n \div 2)

BBitLen(a) ==
    IF a = <<>> THEN 0 ELSE (Len(a) - 1) * LimbBits + NatBitLen(a[Len(a)])

BShl(a, k) == BShiftLimbs(BMulSmall(a, 2 ^ (k % LimbBits)), k \div LimbBits)

BShr(a, k) ==
    IF k \div LimbBits >= Len(a) THEN <<>>
    ELSE BDivSmall(SubSeq(a, k \div LimbBits + 1, Len(a)), 2 ^ (k % LimbBits)).q

BOdd(a) == a # <<>> /\ a[1] % 2 = 1

\* a / 2^k rounded to the nearest integer, ties to even: q is the quotient
\* rounded down, cmp compares the remainder with half of 2^k
BRoundUpIf(q, cmp) ==
    IF cmp > 0 \/ (cmp = 0 /\ BOdd(q)) THEN BAdd(q, <<1>>) ELSE q

BRoundFrom(a, k, q) ==
    BRoundUpIf(q, BCmp(BSub(a, BShl(q, k)), BShl(<<1>>, k - 1)))

BShrRound(a, k) == IF k = 0 THEN a ELSE BRoundFrom(a, k, BShr(a, k))

(***************************************************************************)
(* float64.  A finite value is (-1)^s * m * 2^e with m = 0 or              *)
(* 2^52 <= m < 2^53, which makes the representation of a value unique;     *)
(* NaN and the infinities are values of their own.  Exponent overflow and  *)
(* subnormal results are out of the range the scores can take.             *)
(***************************************************************************)
Fin(s, m, e) == [k |-> "fin", s |-> s, m |-> m, e |-> e]
NaN == [k |-> "nan", s |-> 0, m |-> <<>>, e |-> 0]
Inf(s) == [k |-> "inf", s |-> s, m |-> <<>>, e |-> 0]
FZero == Fin(0, <<>>, 0)

\* the float64 nearest to the exact value (-1)^s * m * 2^e
FRenorm(s, q, e) ==
    IF BBitLen(q) > MantBits THEN Fin(s, BShr(q, 1), e + 1) ELSE Fin(s, q, e)

FRoundLen(s, m, e, len) ==
    IF len <= MantBits
    THEN Fin(s, BShl(m, MantBits - len), e - (MantBits - len))
    ELSE FRenorm(s, BShrRound(m, len - MantBits), e + (len - MantBits))

FRound(s, m, e) == IF m = <<>> THEN FZero ELSE FRoundLen(s, m, e, BBitLen(m))

FRoundX(r) == FRound(r.s, r.m, r.e)

\* exact product and exact sum of finite values, not rounded
XMul(x, y) == [s |-> (x.s + y.s) % 2, m |-> BMul(x.m, y.m), e |-> x.e + y.e]

\* a and b are the two significands at the common exponent e0
XAddAligned(xs, a, ys, b, e0) ==
    IF xs = ys THEN [s |-> xs, m |-> BAdd(a, b), e |-> e0]
    ELSE IF BCmp(a, b) >= 0 THEN [s |-> xs, m |-> BSub(a, b), e |-> e0]
    ELSE [s |-> ys, m |-> BSub(b, a), e |-> e0]

XAddAt(x, y, e0) ==
    XAddAligned(x.s, BShl(x.m, x.e - e0), y.s, BShl(y.m, y.e - e0), e0)

XAdd(x, y) ==
    IF x.m = <<>> THEN [s |-> y.s, m |-> y.m, e |-> y.e]
    ELSE IF y.m = <<>> THEN [s |-> x.s, m |-> x.m, e |-> x.e]
    ELSE XAddAt(x, y, IF x.e < y.e THEN x.e ELSE y.e)

FAdd(x, y) ==
    IF x.k # "fin" \/ y.k # "fin" THEN NaN
    ELSE FRoundX(XAdd(x, y))

FNeg(x) ==
    IF x.k = "nan" \/ (x.k = "fin" /\ x.m = <<>>) THEN x
    ELSE [x EXCEPT !.s = 1 - x.s]

FSub(x, y) == FAdd(x, FNeg(y))

FMul(x, y) ==
    IF x.k # "fin" \/ y.k # "fin" THEN NaN
    ELSE FRoundX(XMul(x, y))

\* x*y + z rounded once (a fused multiply-add)
FMulAdd(x, y, z) ==
    IF x.k # "fin" \/ y.k # "fin" \/ z.k # "fin" THEN NaN
    ELSE FRoundX(XAdd(XMul(x, y), z))

\* x / d for an integer 0 < d < Base: the quotient is taken to 70 more bits
\* and a sticky bit records an inexact remainder
Sticky(dv) == BAdd(BShl(dv.q, 1), IF dv.r # 0 THEN <<1>> ELSE <<>>)

FDivInt(x, d) ==
    IF x.k # "fin" THEN NaN
    ELSE FRound(x.s, Sticky(BDivSmall(BShl(x.m, 5 * LimbBits), d)),
                x.e - 5 * LimbBits - 1)

\* x / 2^j, exact
FDivPow2(x, j) ==
    IF x.k # "fin" \/ x.m = <<>> THEN x ELSE [x EXCEPT !.e = x.e - j]

\* float64(n) for an int n
FromInt(n) == IF n < 0 THEN FRound(1, BFromNat(-n), 0) ELSE FRound(0, BFromNat(n), 0)

\* the float64 a decimal literal n/d denotes
Dec(n, d) == FDivInt(FromInt(n), d)

\* magnitudes of two finite nonzero values
FCmpMag(x, y) ==
    IF x.e < y.e THEN -1 ELSE IF x.e > y.e THEN 1 ELSE BCmp(x.m, y.m)

\* -1, 0, 1 for values that are not NaN
FSign(v) == IF v.k = "fin" /\ v.m = <<>> THEN 0 ELSE IF v.s = 1 THEN -1 ELSE 1

FCmp(x, y) ==
    IF FSign(x) # FSign(y) THEN (IF FSign(x) < FSign(y) THEN -1 ELSE 1)
    ELSE IF FSign(x) = 0 THEN 0
    ELSE IF x.k = "inf" \/ y.k = "inf"
         THEN (IF x.k = y.k THEN 0
               ELSE IF x.k = "inf" THEN FSign(x) ELSE -FSign(x))
    ELSE FSign(x) * FCmpMag(x, y)

\* Go's x > y and x < y: false when either is NaN
FGt(x, y) == x.k # "nan" /\ y.k # "nan" /\ FCmp(x, y) > 0
FLt(x, y) == x.k # "nan" /\ y.k # "nan" /\ FCmp(x, y) < 0

RECURSIVE BToNat(_)
BToNat(a) == IF a = <<>> THEN 0 ELSE a[1] + Base * BToNat(Tail(a))

\* fmt's %.2f: the exact value rounded to hundredths, ties to even, as
\* <<kind, sign, hundredths>>
Hundredths(n, e) == IF e >= 0 THEN BShl(n, e) ELSE BShrRound(n, -e)

Fmt2(x) ==
    IF x.k # "fin" THEN <<x.k, x.s, 0>>
    ELSE IF x.m = <<>> THEN <<"fin", x.s, 0>>
    ELSE <<"fin", x.s, BToNat(Hundredths(BMulSmall(x.m, 100), x.e))>>

(***************************************************************************)
(* Strings.  TLC gives Len, SubSeq, Head, Tail and \o on strings.          *)
(***************************************************************************)
UpperLetters == "ABCDEFGHIJKLMNOPQRSTUVWXYZ"
LowerLetters == "abcdefghijklmnopqrstuvwxyz"

LetterIndex(c) == CHOOSE j \in 1..Len(UpperLetters) : SubSeq(UpperLetters, j, j) = c

LowerChar(c) ==
    IF \E i \in 1..Len(UpperLetters) : SubSeq(UpperLetters, i, i) = c
    THEN SubSeq(LowerLetters, LetterIndex(c), LetterIndex(c))
    ELSE c

\* strings.ToLower
RECURSIVE ToLower(_)
ToLower(str) == IF Len(str) = 0 THEN "" ELSE LowerChar(Head(str)) \o ToLower(Tail(str))

IsSpace(c) == c \in {" ", "\t", "\n", "\r"}

\* strings.TrimSpace
RECURSIVE TrimLeft(_)
TrimLeft(str) ==
    IF Len(str) > 0 /\ IsSpace(Head(str)) THEN TrimLeft(Tail(str)) ELSE str

RECURSIVE TrimRight(_)
TrimRight(str) ==
    IF Len(str) > 0 /\ IsSpace(SubSeq(str, Len(str), Len(str)))
    THEN TrimRight(SubSeq(str, 1, Len(str) - 1)) ELSE str

TrimSpace(str) == TrimRight(TrimLeft(str))

\* strings.HasPrefix, strings.Contains
HasPrefix(str, prefix) ==
    Len(str) >= Len(prefix) /\ SubSeq(str, 1, Len(prefix)) = prefix

Contains(str, sub) ==
    \E i \in 1..(Len(str) - Len(sub) + 1) : SubSeq(str, i, i + Len(sub) - 1) = sub

\* filepath.Ext: the suffix from the last dot of the last path element
RECURSIVE ExtFrom(_, _)
ExtFrom(path, i) ==
    IF i = 0 \/ SubSeq(path, i, i) = "/" THEN ""
    ELSE IF SubSeq(path, i, i) = "." THEN SubSeq(path, i, Len(path))
    ELSE ExtFrom(path, i - 1)

Ext(path) == ExtFrom(path, Len(path))

(***************************************************************************)
(* Files.  content holds the leading bytes of the file, size is what Stat  *)
(* reports, readOK and statOK say whether ReadAt and Stat succeed (a       *)
(* closed handle fails both).                                              *)
(***************************************************************************)
File(name, content, size) ==
    [nil |-> FALSE, name |-> name, content |-> content, size |-> size,
     readOK |-> TRUE, statOK |-> TRUE]

NilFile ==
    [nil |-> TRUE, name |-> "", content |-> <<>>, size |-> 0,
     readOK |-> FALSE, statOK |-> FALSE]

Closed(f) == [f EXCEPT !.readOK = FALSE, !.statOK = FALSE]

SniffLen == 512

\* f.ReadAt(buf, 0) with a 512-byte buf: the bytes read and the error
ReadAt(f) ==
    IF ~f.readOK THEN [n |-> <<>>, err |-> "error"]
    ELSE IF Len(f.content) < SniffLen THEN [n |-> f.content, err |-> "EOF"]
    ELSE [n |-> SubSeq(f.content, 1, SniffLen), err |-> "nil"]

(***************************************************************************)
(* net/http.DetectContentType, for the signatures the files of the model   *)
(* can match: the exact-prefix signatures, then the text signature (no     *)
(* binary byte after the leading whitespace), then the fallback.           *)
(***************************************************************************)
BytesPrefix(data, sig) == Len(data) >= Len(sig) /\ SubSeq(data, 1, Len(sig)) = sig

ExactSigs ==
    << [sig |-> <<37, 80, 68, 70, 45>>,               ct |-> "application/pdf"],
       [sig |-> <<71, 73, 70, 56, 57, 97>>,           ct |-> "image/gif"],
       [sig |-> <<137, 80, 78, 71, 13, 10, 26, 10>>,  ct |-> "image/png"],
       [sig |-> <<255, 216, 255>>,                    ct |-> "image/jpeg"],
       [sig |-> <<73, 68, 51>>,                       ct |-> "audio/mpeg"],
       [sig |-> <<26, 69, 223, 163>>,                 ct |-> "video/webm"],
       [sig |-> <<80, 75, 3, 4>>,                     ct |-> "application/zip"],
       [sig |-> <<31, 139, 8>>,                       ct |-> "application/x-gzip"] >>

IsWS(b) == b \in {9, 10, 12, 13, 32}

IsBinaryByte(b) ==
    b <= 8 \/ b = 11 \/ (14 <= b /\ b <= 26) \/ (28 <= b /\ b <= 31)

RECURSIVE FirstNonWS(_, _)
FirstNonWS(data, i) ==
    IF i <= Len(data) /\ IsWS(data[i]) THEN FirstNonWS(data, i + 1) ELSE i

TextSig(data) ==
    \A i \in FirstNonWS(data, 1)..Len(data) : ~IsBinaryByte(data[i])

FirstSig(data) ==
    CHOOSE k \in 1..Len(ExactSigs) :
        /\ BytesPrefix(data, ExactSigs[k].sig)
        /\ \A j \in 1..(k - 1) : ~BytesPrefix(data, ExactSigs[j].sig)

\* a variant that takes an empty prefix for binary
DetectContentTypeEmptyBinary(data) ==
    IF data = <<>> THEN "application/octet-stream"
    ELSE IF \E k \in 1..Len(ExactSigs) : BytesPrefix(data, ExactSigs[k].sig)
    THEN ExactSigs[FirstSig(data)].ct
    ELSE IF TextSig(data) THEN "text/plain; charset=utf-8"
    ELSE "application/octet-stream"

DetectContentType(data) ==
    IF \E k \in 1..Len(ExactSigs) : BytesPrefix(data, ExactSigs[k].sig)
    THEN ExactSigs[FirstSig(data)].ct
    ELSE IF TextSig(data) THEN "text/plain; charset=utf-8"
    ELSE "application/octet-stream"

(***************************************************************************)
(* mime.TypeByExtension: Go's built-in table, which a system mime.types    *)
(* file extends.  "" stands for no mapping.                                *)
(***************************************************************************)
BuiltinTypes ==
    [e \in {".gif", ".jpg", ".json", ".pdf", ".png", ".xml"} |->
        CASE e = ".gif"  -> "image/gif"
          [] e = ".jpg"  -> "image/jpeg"
          [] e = ".json" -> "application/json"
          [] e = ".pdf"  -> "application/pdf"
          [] e = ".png"  -> "image/png"
          [] e = ".xml"  -> "text/xml; charset=utf-8"]

SystemTypes ==
    [e \in {".txt", ".md", ".zip", ".mp3", ".yaml", ".c"} |->
        CASE e = ".txt"  -> "text/plain; charset=utf-8"
          [] e = ".md"   -> "text/markdown; charset=utf-8"
          [] e = ".zip"  -> "application/zip"
          [] e = ".mp3"  -> "audio/mpeg"
          [] e = ".yaml" -> "application/yaml"
          [] e = ".c"    -> "text/x-csrc; charset=utf-8"]

TypeByExtension(table, e) == IF e \in DOMAIN table THEN table[e] ELSE ""

TextExts ==
    {".txt", ".md", ".csv", ".log", ".json", ".xml", ".yaml", ".yml",
     ".go", ".py", ".c", ".cpp", ".java"}

\* the category the final MIME string gives; "" when none of the rules match
MimeCategory(low) ==
    IF HasPrefix(low, "text/") THEN "text"
    ELSE IF HasPrefix(low, "image/") THEN "image"
    ELSE IF HasPrefix(low, "audio/") THEN "audio"
    ELSE IF HasPrefix(low, "video/") THEN "video"
    ELSE IF \/ Contains(low, "zip") \/ Contains(low, "compressed")
            \/ Contains(low, "x-rar") \/ Contains(low, "7z") \/ Contains(low, "tar")
         THEN "archive"
    ELSE ""

\* the switch on the extension
ExtCategory(e) ==
    IF e \in TextExts THEN "text" ELSE IF e = ".pdf" THEN "archive" ELSE "binary"

\* a variant in which the switch on the extension comes first
CategoryExtFirst(low, e) ==
    IF ExtCategory(e) # "binary" THEN ExtCategory(e)
    ELSE IF MimeCategory(low) # "" THEN MimeCategory(low) ELSE "binary"

\* the if-else chain on the MIME string, whose last else is the switch
Category(low, e) ==
    IF MimeCategory(low) # "" THEN MimeCategory(low) ELSE ExtCategory(e)

\* the MIME string after the extension's mapping, if any, replaced the sniffed one
FinalMime(table, data, e) ==
    IF e # "" /\ TypeByExtension(table, e) # ""
    THEN TypeByExtension(table, e)
    ELSE DetectContentType(data)

Classified(m, e) == [mime |-> m, category |-> Category(ToLower(m), e)]

Sniffed(rd, e, table) ==
    IF rd.err # "nil" /\ rd.err # "EOF"
    THEN [mime |-> "application/octet-stream", category |-> "binary"]
    ELSE Classified(FinalMime(table, rd.n, e), e)

detectFileCategory(f, table) == Sniffed(ReadAt(f), ToLower(Ext(f.name)), table)

(***************************************************************************)
(* RecommendAlgorithms.  The float64 literals of the scoring code:         *)
(***************************************************************************)
D0_1 == Dec(1, 10)
D0_3 == Dec(3, 10)
D0_5 == Dec(5, 10)
D0_6 == Dec(6, 10)
D0_8 == Dec(8, 10)
D1_0 == FromInt(1)
D1_2 == Dec(12, 10)
D1_6 == Dec(16, 10)
D2_0 == FromInt(2)
D2_2 == Dec(22, 10)
D2_5 == Dec(25, 10)
D3_0 == FromInt(3)
D10 == FromInt(10)
D50 == FromInt(50)
D100 == FromInt(100)
D200 == FromInt(200)
D500 == FromInt(500)
NegInf == Inf(1)

\* sizeBytes after the two ifs: Stat's size when the caller gave none
NonNegative(n) == IF n < 0 THEN 0 ELSE n

EffectiveSize(f, sizeBytes) ==
    NonNegative(IF sizeBytes <= 0
                THEN (IF f.statOK THEN f.size ELSE 0)
                ELSE sizeBytes)

DefaultBalanced(x) ==
    IF x # "speed" /\ x # "ratio" /\ x # "balanced" THEN "balanced" ELSE x

NormalizeTradeoff(t) == DefaultBalanced(TrimSpace(ToLower(t)))

ClampAttention(a) ==
    IF FLt(a, FZero) THEN FZero ELSE IF FGt(a, D1_0) THEN D1_0 ELSE a

ClampHours(h) == IF h < 0 THEN 0 ELSE h

\* float64(sizeBytes) / (1024.0 * 1024.0)
SizeMB(sizeBytes) == FDivPow2(FromInt(sizeBytes), 20)

\* float64(lastUsedHours) / (24.0 * 7.0), at most 3
AtMost3(w) == IF FGt(w, D3_0) THEN D3_0 ELSE w

LuhW(h) == AtMost3(FDivInt(FromInt(h), 24 * 7))

encCandidates == <<"aes256gcm", "aes256gcmsiv", "xchacha20poly1305">>
compCandidates == <<"zip", "lzma2", "lz4", "zstd">>

Range(seq) == {seq[i] : i \in 1..Len(seq)}

(***************************************************************************)
(* The Go specification lets a build fuse x*y + z into one operation that  *)
(* rounds once.  fused says what the build does: "none" rounds every       *)
(* operation, "left" and "right" fuse every multiply-add, taking the left  *)
(* or the right product where both operands of the sum are products.       *)
(***************************************************************************)
FusedModes == {"none", "left", "right"}

\* acc + x*y
AddProduct(mode, acc, x, y) ==
    IF mode = "none" THEN FAdd(acc, FMul(x, y)) ELSE FMulAdd(x, y, acc)

\* x1*y1 + x2*y2
SumProducts(mode, x1, y1, x2, y2) ==
    IF mode = "left" THEN FMulAdd(x1, y1, FMul(x2, y2))
    ELSE IF mode = "right" THEN FMulAdd(x2, y2, FMul(x1, y1))
    ELSE FAdd(FMul(x1, y1), FMul(x2, y2))

\* if cond { score += d }
AddIf(cond, score, d) == IF cond THEN FAdd(score, d) ELSE score

EncScore(c, attention, luhW, sizeMB, tradeoff, aesni, mode) ==
    IF c = "aes256gcmsiv"
    THEN FAdd(D0_1, SumProducts(mode, attention, D2_5, luhW, D1_2))
    ELSE IF c = "aes256gcm"
    THEN AddProduct(mode,
                    FAdd(D0_1, AddProduct(mode, IF aesni THEN D2_0 ELSE D0_6,
                                          attention, D0_6)),
                    luhW, D0_6)
    ELSE AddProduct(mode,
                    AddIf(tradeoff = "speed",
                          AddIf(FGt(sizeMB, D100), D0_1, D3_0), D1_2),
                    attention, D0_8)

IsAlreadyCompressed(category) == category \in {"image", "video", "audio", "archive"}

\* a variant giving the bonus above 500 MB to every candidate
UniversalBonusAll(c, sizeMB) == FGt(sizeMB, D500)

\* sizeMB > 500 && (c == "zstd" || c == "lz4")
UniversalBonus(c, sizeMB) == FGt(sizeMB, D500) /\ (c = "zstd" \/ c = "lz4")

ByTradeoff(tradeoff, ratio, balanced, speed) ==
    IF tradeoff = "ratio" THEN ratio ELSE IF tradeoff = "balanced" THEN balanced ELSE speed

\* the score before the universal bonus
CategoryScore(c, compressed, tradeoff, sizeMB) ==
    IF compressed
    THEN (IF c = "lz4" THEN FAdd(D0_1, D2_0) ELSE FSub(D0_1, D1_2))
    ELSE IF c = "lzma2"
    THEN AddIf(FGt(sizeMB, D100),
               FAdd(D0_1, ByTradeoff(tradeoff, D3_0, D1_6, D0_6)), D1_2)
    ELSE IF c = "zstd"
    THEN AddIf(FGt(sizeMB, D50),
               FAdd(D0_1, ByTradeoff(tradeoff, D2_5, D2_0, D1_2)), D1_0)
    ELSE IF c = "lz4"
    THEN AddIf(FLt(sizeMB, D10),
               FAdd(D0_1, ByTradeoff(tradeoff, D0_3, D1_0, D2_2)), D0_6)
    ELSE AddIf(tradeoff = "speed", AddIf(FLt(sizeMB, D10), D0_1, D1_2), D0_6)

CompScore(c, compressed, tradeoff, sizeMB) ==
    AddIf(UniversalBonus(c, sizeMB),
          CategoryScore(c, compressed, tradeoff, sizeMB), D1_2)

\* for k, v := range scores, in the order the map iteration takes
RECURSIVE PickFrom(_, _, _, _, _)
PickFrom(scores, order, i, best, bestScore) ==
    IF i > Len(order) THEN [best |-> best, score |-> bestScore]
    ELSE IF FGt(scores[order[i]], bestScore)
         THEN PickFrom(scores, order, i + 1, order[i], scores[order[i]])
         ELSE PickFrom(scores, order, i + 1, best, bestScore)

PickBest(scores, order) == PickFrom(scores, order, 1, "", NegInf)

\* a variant without the default for an empty pick
DefaultEncMissing(best) == best

\* if bestEnc == "" { bestEnc = "aes256gcm" }, if bestComp == "" { bestComp = "lz4" }
DefaultEnc(best) == IF best = "" THEN "aes256gcm" ELSE best
DefaultComp(best) == IF best = "" THEN "lz4" ELSE best

\* a variant skipping every already-compressed category
SkipWheneverCompressed(compressed, bestComp, bestCompScore, tradeoff) == compressed

SkipRule(compressed, bestComp, bestCompScore, tradeoff) ==
    compressed /\ (FLt(bestCompScore, D0_5) \/ (bestComp = "lz4" /\ tradeoff # "ratio"))

Clamp(level, lo, hi) == IF level < lo THEN lo ELSE IF level > hi THEN hi ELSE level

\* a variant whose thresholds include the boundary sizes
ZstdLevelInclusive(tradeoff, sizeMB) ==
    Clamp(IF tradeoff = "speed" THEN 1
          ELSE IF tradeoff = "balanced"
          THEN (IF ~FLt(sizeMB, D200) THEN 3 ELSE IF ~FLt(sizeMB, D50) THEN 5 ELSE 3)
          ELSE IF tradeoff = "ratio"
          THEN (IF ~FLt(sizeMB, D500) THEN 12 ELSE IF ~FLt(sizeMB, D200) THEN 9 ELSE 7)
          ELSE 3,
          1, 22)

ZstdLevel(tradeoff, sizeMB) ==
    Clamp(IF tradeoff = "speed" THEN 1
          ELSE IF tradeoff = "balanced"
          THEN (IF FGt(sizeMB, D200) THEN 3 ELSE IF FGt(sizeMB, D50) THEN 5 ELSE 3)
          ELSE IF tradeoff = "ratio"
          THEN (IF FGt(sizeMB, D500) THEN 12 ELSE IF FGt(sizeMB, D200) THEN 9 ELSE 7)
          ELSE 3,
          1, 22)

\* rec.ScoreBreakdown[prefix+c] = score
Prefixed(prefix, scores) ==
    [k \in {prefix \o c : c \in DOMAIN scores} |->
        scores[SubSeq(k, Len(prefix) + 1, Len(k))]]

EmptyRecommendation ==
    [Encryption |-> "", Compression |-> "", ZstdLevel |-> 0,
     SkipCompression |-> FALSE, ScoreBreakdown |-> <<>>, Reason |-> <<>>,
     DetectedMime |-> "", DetectedCategory |-> ""]

\* everything RecommendAlgorithms computes before it ranges over the score maps
Scores(det, tradeoff, att, luhW, sizeMB, aesni, mode) ==
    [mime |-> det.mime, category |-> det.category, tradeoff |-> tradeoff,
     sizeMB |-> sizeMB, compressed |-> IsAlreadyCompressed(det.category),
     encScores  |-> [c \in Range(encCandidates) |->
                        EncScore(c, att, luhW, sizeMB, tradeoff, aesni, mode)],
     compScores |-> [c \in Range(compCandidates) |->
                        CompScore(c, IsAlreadyCompressed(det.category), tradeoff, sizeMB)]]

Scoring(f, lastUsedHours, attention, sizeBytes, prefs, table, mode) ==
    Scores(detectFileCategory(f, table),
           NormalizeTradeoff(prefs.Tradeoff),
           ClampAttention(attention),
           LuhW(ClampHours(lastUsedHours)),
           SizeMB(EffectiveSize(f, sizeBytes)),
           prefs.AssumeAESNI, mode)

\* what follows the two range loops, which ended with enc and cmp: the skip
\* rule, the reason and the zstd level
Recommended(sc, bestEnc, encScore, bestComp, compScore, skip) ==
    [Encryption |-> bestEnc,
     Compression |-> IF skip THEN "none" ELSE bestComp,
     ZstdLevel |-> IF ~skip /\ bestComp = "zstd"
                   THEN ZstdLevel(sc.tradeoff, sc.sizeMB) ELSE 0,
     SkipCompression |-> skip,
     ScoreBreakdown |-> Prefixed("enc_", sc.encScores) @@ Prefixed("comp_", sc.compScores),
     Reason |-> IF skip THEN <<"skip", sc.category>>
                ELSE <<"chosen", bestEnc, Fmt2(encScore), bestComp, Fmt2(compScore)>>,
     DetectedMime |-> sc.mime,
     DetectedCategory |-> sc.category]

Selection(sc, enc, cmp) ==
    Recommended(sc, DefaultEnc(enc.best), enc.score, DefaultComp(cmp.best), cmp.score,
                SkipRule(sc.compressed, DefaultComp(cmp.best), cmp.score, sc.tradeoff))

\* the orders a range over a map can take
Orders(cands) ==
    {o \in [1..Len(cands) -> Range(cands)] : \A i, j \in 1..Len(cands) : o[i] = o[j] => i = j}

EncOrders == Orders(encCandidates)
CompOrders == Orders(compCandidates)

\* the Recommendations the two range loops can end with, given the scores
Outcomes(sc) ==
    {Selection(sc, enc, cmp) :
        enc \in {PickBest(sc.encScores, o) : o \in EncOrders},
        cmp \in {PickBest(sc.compScores, o) : o \in CompOrders}}

\* a variant that also fails on a handle whose size query fails
CallErrorOnStat(f) ==
    IF f.nil THEN "file is nil" ELSE IF ~f.statOK THEN "stat failed" ELSE "nil"

\* the error RecommendAlgorithms returns; "nil" is no error
CallError(f) == IF f.nil THEN "file is nil" ELSE "nil"

\* every (Recommendation, error) a call can return
RecommendAlgorithms(f, lastUsedHours, attention, sizeBytes, prefs, table, mode) ==
    IF CallError(f) # "nil" THEN {[rec |-> EmptyRecommendation, err |-> CallError(f)]}
    ELSE {[rec |-> r, err |-> "nil"] :
            r \in UNION {Outcomes(sc) :
                sc \in {Scoring(f, lastUsedHours, attention, sizeBytes, prefs, table, mode)}}}

(***************************************************************************)
(* The state: the arguments a caller passes, the environment of the build  *)
(* and of the host, and the calls made so far with what each returned.     *)
(***************************************************************************)
VARIABLES file, lastUsedHours, attention, sizeBytes, prefs, mimeTypes, fused, hist

vars == <<file, lastUsedHours, attention, sizeBytes, prefs, mimeTypes, fused, hist>>

MaxCalls == 2

MB(n) == n * 1024 * 1024

TextFile == File("notes.txt", <<104, 105, 10>>, MB(30))
ImageFile == File("photo.PNG", <<137, 80, 78, 71, 13, 10, 26, 10>>, MB(600))

Files == {NilFile, TextFile, ImageFile, Closed(TextFile)}
Sizes == {-1, 0, MB(50), MB(60), MB(200), MB(300), MB(500), MB(600)}
Hours == {-5, 35, 600}
Attentions == {FromInt(-1), Dec(1, 4), FromInt(5), NaN}
Tradeoffs == {"speed", "ratio", "balanced", " Speed\n", "fastest"}

Init ==
    /\ file \in Files
    /\ lastUsedHours \in Hours
    /\ attention \in Attentions
    /\ sizeBytes \in Sizes
    /\ prefs \in [Tradeoff : Tradeoffs, AssumeAESNI : BOOLEAN, ForceDetectExt : {FALSE}]
    /\ mimeTypes = BuiltinTypes
    /\ fused \in FusedModes
    /\ hist = <<>>

\* one call of RecommendAlgorithms with the current arguments
Call ==
    /\ Len(hist) < MaxCalls
    /\ \E r \in RecommendAlgorithms(file, lastUsedHours, attention, sizeBytes,
                                    prefs, mimeTypes, fused) :
          hist' = Append(hist, [lastUsedHours |-> lastUsedHours,
                                attention |-> attention,
                                rec |-> r.rec, err |-> r.err])
    /\ UNCHANGED <<file, lastUsedHours, attention, sizeBytes, prefs, mimeTypes, fused>>

Next == Call

Spec == Init /\ [][Next]_vars

(***************************************************************************)
(* The usage signals change between calls: the same file is asked about    *)
(* again with another attention or another recency.                        *)
(***************************************************************************)
SignalHours == {-5, 0, 168}
SignalAttentions == {FromInt(-1), FZero, D1_0, FromInt(5)}

InitSignals ==
    /\ file = TextFile
    /\ lastUsedHours \in SignalHours
    /\ attention \in SignalAttentions
    /\ sizeBytes \in {MB(5), MB(150)}
    /\ prefs \in [Tradeoff : {"speed", "balanced"}, AssumeAESNI : BOOLEAN,
                  ForceDetectExt : {FALSE}]
    /\ mimeTypes = BuiltinTypes
    /\ fused \in FusedModes
    /\ hist = <<>>

Resignal ==
    /\ hist # <<>>
    /\ Len(hist) < MaxCalls
    /\ \E h \in SignalHours, a \in SignalAttentions :
          /\ <<h, a>> # <<lastUsedHours, attention>>
          /\ lastUsedHours' = h
          /\ attention' = a
    /\ UNCHANGED <<file, sizeBytes, prefs, mimeTypes, fused, hist>>

NextSignals == Call \/ Resignal

SpecSignals == InitSignals /\ [][NextSignals]_vars

(***************************************************************************)
(* Classification: files of many names and contents, on a host with and    *)
(* without a system mime.types table, the other arguments fixed.           *)
(***************************************************************************)
Names ==
    {"README", "x.bin", "dir.d/blob", "notes.txt", "NOTES.MD", "data.json",
     "paper.pdf", "photo.PNG", "conf.yaml", "main.c", "song.mp3", "pack.zip"}

EmptyBytes == <<>>
TextBytes == <<104, 105, 10>>
PngBytes == <<137, 80, 78, 71, 13, 10, 26, 10>>
PdfBytes == <<37, 80, 68, 70, 45, 49>>
ZipBytes == <<80, 75, 3, 4, 20>>
BinBytes == <<0, 1, 2, 3>>

Contents == {EmptyBytes, TextBytes, PngBytes, PdfBytes, ZipBytes, BinBytes}

OpenFiles ==
    {File(n, c, IF c = EmptyBytes THEN 0 ELSE MB(1)) : n \in Names, c \in Contents}

DetectFiles == OpenFiles \cup {Closed(f) : f \in OpenFiles}

InitDetect ==
    /\ file \in DetectFiles
    /\ lastUsedHours = 0
    /\ attention = FZero
    /\ sizeBytes = 0
    /\ prefs = [Tradeoff |-> "balanced", AssumeAESNI |-> FALSE, ForceDetectExt |-> FALSE]
    /\ mimeTypes \in {BuiltinTypes, BuiltinTypes @@ SystemTypes}
    /\ fused = "none"
    /\ hist = <<>>

SpecDetect == InitDetect /\ [][Next]_vars

(***************************************************************************)
(* Properties.                                                             *)
(***************************************************************************)
Calls == {hist[i] : i \in 1..Len(hist)}

\* the arguments as the code uses them
Tradeoff == NormalizeTradeoff(prefs.Tradeoff)
Bytes == EffectiveSize(file, sizeBytes)
FileExt == ToLower(Ext(file.name))

Score(h, key) == h.rec.ScoreBreakdown[key]

\* the candidates no other candidate of the family outscores
Highest(h, prefix, cands) ==
    {c \in Range(cands) :
        \A d \in Range(cands) : ~FGt(Score(h, prefix \o d), Score(h, prefix \o c))}

FirstOf(priority, S) ==
    priority[CHOOSE i \in 1..Len(priority) :
                 priority[i] \in S /\ \A j \in 1..(i - 1) : priority[j] \notin S]

EncPriority == <<"aes256gcm", "aes256gcmsiv", "xchacha20poly1305">>
CompPriority == <<"lzma2", "zstd", "lz4", "zip">>

\* C1: a call on a non-nil file returns one of the three encryption names and
\* one of the four compression names or "none", whatever the signals and the
\* Tradeoff string are.
C1_ChoicesInFixedSets ==
    \A h \in Calls :
        ~file.nil =>
            /\ h.rec.Encryption \in {"aes256gcm", "aes256gcmsiv", "xchacha20poly1305"}
            /\ h.rec.Compression \in {"zip", "lzma2", "lz4", "zstd", "none"}

\* a call with an unrecognized Tradeoff, a negative recency and no usable attention
C1_Witness ==
    \E h \in Calls :
        /\ ~file.nil
        /\ prefs.Tradeoff = "fastest"
        /\ h.lastUsedHours < 0
        /\ h.attention = NaN
        /\ h.rec.Encryption = "aes256gcm"

\* C2: two calls with identical arguments return identical Recommendations,
\* also when candidates share the highest score.
C2_Deterministic ==
    \A i, j \in 1..Len(hist) :
        (hist[i].attention = hist[j].attention
            /\ hist[i].lastUsedHours = hist[j].lastUsedHours)
        => hist[i].rec = hist[j].rec

\* C3: the winner of each family has the highest score, and among candidates
\* sharing the highest score it is the first in the priority order.
C3_PriorityTieBreak ==
    \A h \in Calls :
        (h.err = "nil" /\ h.attention.k # "nan") =>
            /\ h.rec.Encryption = FirstOf(EncPriority, Highest(h, "enc_", encCandidates))
            /\ ~h.rec.SkipCompression =>
                  h.rec.Compression = FirstOf(CompPriority, Highest(h, "comp_", compCandidates))

LargeTextRatio(h) ==
    /\ h.err = "nil"
    /\ h.rec.DetectedCategory = "text"
    /\ Bytes = MB(600)
    /\ Tradeoff = "ratio"

\* C4 as stated: a text file of 600 MB with tradeoff ratio gets lzma2.
C4_LzmaWins == \A h \in Calls : LargeTextRatio(h) => h.rec.Compression = "lzma2"

\* C4 as amended: a text file of 600 MB with tradeoff ratio gets zstd, which
\* scores 4.80 against 4.30 for lzma2, the bonus of 1.2 above 500 MB having
\* gone to zstd and lz4 only (lz4 1.60, zip 0.10).
C4_ZstdWins ==
    \A h \in Calls :
        LargeTextRatio(h) =>
            /\ h.rec.Compression = "zstd"
            /\ Fmt2(Score(h, "comp_zstd")) = <<"fin", 0, 480>>
            /\ Fmt2(Score(h, "comp_lzma2")) = <<"fin", 0, 430>>
            /\ Fmt2(Score(h, "comp_lz4")) = <<"fin", 0, 160>>
            /\ Fmt2(Score(h, "comp_zip")) = <<"fin", 0, 10>>

C4_Witness == \E h \in Calls : LargeTextRatio(h) /\ h.rec.Compression = "zstd"

\* the level table of the claim, on the size in bytes
TableLevel ==
    IF Tradeoff = "speed" THEN 1
    ELSE IF Tradeoff = "balanced"
    THEN (IF Bytes <= MB(50) THEN 3 ELSE IF Bytes <= MB(200) THEN 5 ELSE 3)
    ELSE (IF Bytes <= MB(200) THEN 7 ELSE IF Bytes <= MB(500) THEN 9 ELSE 12)

\* C5: when the returned Compression is zstd, ZstdLevel is within 1..22 and is
\* the level the table gives for the normalized tradeoff and the size.
C5_ZstdLevelTable ==
    \A h \in Calls :
        h.rec.Compression = "zstd" =>
            /\ h.rec.ZstdLevel \in 1..22
            /\ h.rec.ZstdLevel = TableLevel

\* zstd chosen for tradeoff ratio at 600 MB, with level 12
C5_Witness ==
    \E h \in Calls :
        /\ h.rec.Compression = "zstd"
        /\ Tradeoff = "ratio"
        /\ Bytes = MB(600)
        /\ h.rec.ZstdLevel = 12

\* C6: compression is skipped (SkipCompression, Compression "none") exactly
\* for the categories image, video, audio, archive with a tradeoff other than
\* ratio; otherwise Compression is a compression candidate of highest score.
C6_SkipRule ==
    \A h \in Calls :
        h.err = "nil" =>
            IF h.rec.DetectedCategory \in {"image", "video", "audio", "archive"}
               /\ Tradeoff # "ratio"
            THEN h.rec.SkipCompression /\ h.rec.Compression = "none"
            ELSE /\ ~h.rec.SkipCompression
                 /\ h.rec.Compression \in Highest(h, "comp_", compCandidates)

\* an image with tradeoff balanced, skipped
C6_Witness ==
    \E h \in Calls :
        /\ h.rec.DetectedCategory = "image"
        /\ prefs.Tradeoff = "balanced"
        /\ h.rec.SkipCompression
        /\ h.rec.Compression = "none"

\* C7: a call with an attention below 0 returns the Recommendation of a call
\* with attention 0, one with an attention above 1 that of a call with
\* attention 1, and one with a negative lastUsedHours that of a call with
\* lastUsedHours 0, the other arguments being the same.
C7_ClampedSignalsSame ==
    \A i, j \in 1..Len(hist) :
        /\ (/\ hist[i].lastUsedHours = hist[j].lastUsedHours
            /\ \/ FLt(hist[i].attention, FZero) /\ hist[j].attention = FZero
               \/ FGt(hist[i].attention, D1_0) /\ hist[j].attention = D1_0)
           => hist[i].rec = hist[j].rec
        /\ (/\ hist[i].attention = hist[j].attention
            /\ hist[i].lastUsedHours < 0
            /\ hist[j].lastUsedHours = 0)
           => hist[i].rec = hist[j].rec

\* C8: a call returns an error exactly when the file is nil, and then the
\* Recommendation is empty; a call on any non-nil file returns a Recommendation.
C8_ErrorIffNil ==
    \A h \in Calls :
        /\ h.err # "nil" <=> file.nil
        /\ file.nil =>
              /\ h.rec.Encryption = "" /\ h.rec.Compression = ""
              /\ h.rec.ZstdLevel = 0 /\ ~h.rec.SkipCompression
              /\ DOMAIN h.rec.ScoreBreakdown = {}
        /\ ~file.nil =>
              /\ h.rec.Encryption # "" /\ h.rec.Compression # ""
              /\ DOMAIN h.rec.ScoreBreakdown # {}

\* a call on a handle whose read and size query both fail, with no size given
C8_Witness ==
    \E h \in Calls :
        /\ ~file.nil /\ ~file.readOK /\ ~file.statOK /\ sizeBytes <= 0
        /\ h.err = "nil"
        /\ h.rec.DetectedCategory = "binary"

\* a readable zero-byte file whose extension has no MIME mapping and is not
\* one of the extensions of the switch
EmptyUnknown ==
    /\ ~file.nil /\ file.readOK
    /\ file.content = <<>>
    /\ TypeByExtension(mimeTypes, FileExt) = ""
    /\ FileExt \notin TextExts \cup {".pdf"}

\* C9 as stated: such a file is application/octet-stream, binary, no error.
C9_EmptyIsBinary ==
    \A h \in Calls :
        EmptyUnknown =>
            /\ h.err = "nil"
            /\ h.rec.DetectedMime = "application/octet-stream"
            /\ h.rec.DetectedCategory = "binary"

\* C9 as amended: such a file is text/plain; charset=utf-8, text, no error.
C9_EmptyIsText ==
    \A h \in Calls :
        EmptyUnknown =>
            /\ h.err = "nil"
            /\ h.rec.DetectedMime = "text/plain; charset=utf-8"
            /\ h.rec.DetectedCategory = "text"

C9_Witness == \E h \in Calls : EmptyUnknown /\ file.name = "x.bin" /\ h.err = "nil"

Readable == ~file.nil /\ file.readOK

\* C10 as stated: an extension of the switch decides the category whatever
\* the final MIME string is.
C10_ExtensionOverrides ==
    \A h \in Calls :
        Readable =>
            /\ FileExt \in TextExts => h.rec.DetectedCategory = "text"
            /\ FileExt = ".pdf" => h.rec.DetectedCategory = "archive"

\* C10 as amended: an extension of the switch decides the category only when
\* the final MIME string matches none of the MIME rules; when it matches one,
\* that rule's category stands.  A .json file is text whatever was sniffed.
C10_ExtensionFallback ==
    \A h \in Calls :
        Readable =>
            /\ (FileExt \in TextExts \cup {".pdf"}) =>
                  h.rec.DetectedCategory =
                      IF MimeCategory(ToLower(h.rec.DetectedMime)) # ""
                      THEN MimeCategory(ToLower(h.rec.DetectedMime))
                      ELSE IF FileExt = ".pdf" THEN "archive" ELSE "text"
            /\ FileExt = ".json" => h.rec.DetectedCategory = "text"

\* a .md file with no MIME mapping and PNG content, classified image
C10_Witness ==
    \E h \in Calls :
        /\ Readable
        /\ FileExt = ".md"
        /\ TypeByExtension(mimeTypes, FileExt) = ""
        /\ h.rec.DetectedMime = "image/png"
        /\ h.rec.DetectedCategory = "image"

====
